---- MODULE Spec2Model ----
(***************************************************************************)
(* One process run of the sapp command line entry point (sapp/cli.py).     *)
(*                                                                         *)
(* The module body registers every command of `commands` and then `lint`   *)
(* on the click group `cli`; `cli()` then parses the global options,       *)
(* resolves the first positional token against the registered names, runs  *)
(* the group callback (the body of `cli`: DB(...), Context(...), one debug *)
(* record), builds the sub-context of the resolved command (parsing its    *)
(* own options) and invokes its handler.                                   *)
(***************************************************************************)
EXTENDS Integers, Sequences, FiniteSets, TLC

VARIABLES
    pc,          \* position of the run: "import", "main", a stage of invoke_sequence, "done"
    i,           \* index of the next command to register (the for loop, line 34)
    order,       \* the sequence of command objects being registered
    registry,    \* cli.commands: registered name -> handler
    input,       \* the command line and environment of this run
    params,      \* the parsed global options handed to cli(...)
    cmd,         \* ctx.invoked_subcommand
    ctx_obj,     \* ctx.obj
    db_calls,    \* every call DB(...) made so far, with its arguments
    ctx_builds,  \* number of Context(...) constructions so far
    invoked,     \* handlers whose body has run, with the ctx.obj they observed
    log,         \* records emitted on logger "sapp"
    exit_code    \* exit status of the process; -1 while it runs

vars == <<pc, i, order, registry, input, params, cmd, ctx_obj, db_calls,
          ctx_builds, invoked, log, exit_code>>

\* ---------------------------------------------------------------- values

None == [none |-> TRUE]

\* sapp.db.DBType
SQLITE == "sqlite"
MEMORY == "memory"

\* sapp.pysa_taint_parser.Parser, passed as a class reference (line 29)
Parser == "Parser"

\* type=click.Choice([DBType.SQLITE, DBType.MEMORY])            (line 18)
EngineChoices == {SQLITE, MEMORY}

\* "--database-engine", "--database"                            (lines 16-17)
EngineOptionNames == {"--database-engine", "--database"}

EngineDefault_memory == MEMORY
\* default=DBType.SQLITE                                        (line 19)
EngineDefault == SQLITE

\* sapp.cli_lib.commands and sapp.lint.lint: click command objects
commands == << [name |-> "analyze", handler |-> "analyze_handler"],
               [name |-> "explore", handler |-> "explore_handler"] >>
lint == [name |-> "lint", handler |-> "lint_handler"]

\* ---------------------------------------------------------------- inputs

NoOption == "<omitted>"
NoToken == "<none>"

OptionSpellings == EngineOptionNames \cup {NoOption, "--db-engine"}
EngineValues == EngineChoices \cup {"postgres"}
Repositories == {"/tmp/repo", "/src"}
DatabaseNames == {"test", "sapp.db"}
Tokens == {"analyze", "explore", "lint", "lin", "frobnicate", NoToken}

Inputs ==
    { r \in [ engine_opt : OptionSpellings, engine_val : EngineValues,
              repository : Repositories, database_name : DatabaseNames,
              token : Tokens, sub_args_ok : BOOLEAN,
              db_fails : BOOLEAN, handler_ok : BOOLEAN ] :
        \* an omitted option carries no value
        r.engine_opt = NoOption => r.engine_val = SQLITE }

\* ---------------------------------------------------------------- registration

\* click Group.add_command(cmd): self.commands[cmd.name] = cmd
add_command(reg, c) ==
    [ n \in DOMAIN reg \cup {c.name} |->
        IF n = c.name THEN c.handler ELSE reg[n] ]

RegistrationOrder_NoLint == commands
RegistrationOrder_dup ==
    commands \o <<lint>> \o << [name |-> "lint", handler |-> commands[1].handler] >>
\* for command in commands: cli.add_command(command); cli.add_command(lint)
RegistrationOrder == commands \o <<lint>>

EmptyRegistry == [ n \in {} |-> "" ]

Perms(s) ==
    { [ k \in 1..Len(s) |-> s[p[k]] ] :
        p \in { q \in [1..Len(s) -> 1..Len(s)] :
                  \A a, b \in 1..Len(s) : a # b => q[a] # q[b] } }

\* ---------------------------------------------------------------- option parsing

database_engine_option_unchecked(opt, val) ==
    IF opt = NoOption THEN [ok |-> TRUE, value |-> EngineDefault]
    ELSE IF opt \notin EngineOptionNames THEN [ok |-> FALSE, value |-> val]
    ELSE [ok |-> TRUE, value |-> val]
\* @click.option("--database-engine", "--database", type=click.Choice(...), default=...)
database_engine_option(opt, val) ==
    IF opt = NoOption THEN [ok |-> TRUE, value |-> EngineDefault]
    ELSE IF opt \notin EngineOptionNames THEN [ok |-> FALSE, value |-> val]
    ELSE IF val \in EngineChoices THEN [ok |-> TRUE, value |-> val]
    ELSE [ok |-> FALSE, value |-> val]

\* ---------------------------------------------------------------- the body of cli

\* sapp.db.DB(dbtype, dbname, assertions=...)
DB(dbtype, dbname, assertions) ==
    [dbtype |-> dbtype, dbname |-> dbname, assertions |-> assertions]

\* sapp.context.Context(repository=, database=, parser_class=)
Context(repository, database, parser_class) ==
    [repository |-> repository, database |-> database, parser_class |-> parser_class]

cli_swallow(repository, database_name, database_engine, db_fails) ==
    [ raised |-> FALSE,
      db_call |-> [dbtype |-> database_engine, dbname |-> database_name,
                   assertions |-> TRUE],
      obj |-> IF db_fails
              THEN [repository |-> repository, parser_class |-> Parser]
              ELSE Context(repository, DB(database_engine, database_name, TRUE), Parser) ]
cli_swapped(repository, database_name, database_engine, db_fails) ==
    [ raised |-> db_fails,
      db_call |-> [dbtype |-> database_engine, dbname |-> repository,
                   assertions |-> TRUE],
      obj |-> IF db_fails THEN None
              ELSE Context(database_name, DB(database_engine, repository, TRUE), Parser) ]
\* def cli(ctx, repository, database_name, database_engine): the DB(...) call is
\* evaluated first; when it raises, nothing is assigned to ctx.obj.
cli(repository, database_name, database_engine, db_fails) ==
    [ raised |-> db_fails,
      db_call |-> [dbtype |-> database_engine, dbname |-> database_name,
                   assertions |-> TRUE],
      obj |-> IF db_fails THEN None
              ELSE Context(repository, DB(database_engine, database_name, TRUE), Parser) ]

\* ---------------------------------------------------------------- dispatch

GroupCallbackRuns_lint_skips(name) == name # lint.name
\* cli is the callback of the group every command, lint included, is added to
GroupCallbackRuns(name) == TRUE

invoke_sequence_callback_first == <<"callback", "resolve", "make_context", "handler">>
invoke_sequence_callback_late == <<"resolve", "make_context", "callback", "handler">>
\* cli(): the group resolves the command, runs its own callback, builds the
\* sub-context of the command (parsing its options) and invokes the handler
invoke_sequence == <<"resolve", "callback", "make_context", "handler">>

Steps(token) ==
    IF GroupCallbackRuns(token) THEN invoke_sequence
    ELSE SelectSeq(invoke_sequence, LAMBDA s : s # "callback")

FirstStep(token) == Steps(token)[1]

StepAfter(s, token) ==
    LET st == Steps(token)
        k == CHOOSE j \in 1..Len(st) : st[j] = s
    IN IF k < Len(st) THEN st[k + 1] ELSE "done"

\* a command's handler reads ctx.obj and leaves it as it is
handler_body_replaces(obj) ==
    IF obj = None THEN obj ELSE [obj EXCEPT !.repository = "/elsewhere"]
handler_body(obj) == obj

\* ---------------------------------------------------------------- actions

Init ==
    /\ pc = "import"
    /\ i = 1
    /\ order = RegistrationOrder
    /\ registry = EmptyRegistry
    /\ input = None
    /\ params = None
    /\ cmd = NoToken
    /\ ctx_obj = None
    /\ db_calls = <<>>
    /\ ctx_builds = 0
    /\ invoked = <<>>
    /\ log = <<>>
    /\ exit_code = -1

\* lines 34-36: one add_command call
AddCommand ==
    /\ pc = "import"
    /\ i <= Len(order)
    /\ registry' = add_command(registry, order[i])
    /\ i' = i + 1
    /\ UNCHANGED <<pc, order, input, params, cmd, ctx_obj, db_calls, ctx_builds,
                   invoked, log, exit_code>>

\* end of the module body
ImportDone ==
    /\ pc = "import"
    /\ i > Len(order)
    /\ pc' = "main"
    /\ UNCHANGED <<i, order, registry, input, params, cmd, ctx_obj, db_calls,
                   ctx_builds, invoked, log, exit_code>>

\* lines 38-39: cli() reads the command line
Main ==
    /\ pc = "main"
    /\ \E a \in Inputs : input' = a
    /\ pc' = "parse"
    /\ UNCHANGED <<i, order, registry, params, cmd, ctx_obj, db_calls, ctx_builds,
                   invoked, log, exit_code>>

Exit(code) ==
    /\ pc' = "done"
    /\ exit_code' = code

\* the group parses its own options; a usage error exits with status 2.
\* Without a command the run ends before the callback: the help screen
\* (status 0) for an empty command line, "Missing command" (status 2) otherwise
ParseGlobalOptions ==
    /\ pc = "parse"
    /\ LET e == database_engine_option(input.engine_opt, input.engine_val) IN
         IF ~e.ok
         THEN Exit(2) /\ UNCHANGED params
         ELSE /\ params' = [repository |-> input.repository,
                            database_name |-> input.database_name,
                            database_engine |-> e.value]
              /\ IF input.token = NoToken
                 THEN \E code \in {0, 2} : Exit(code)
                 ELSE pc' = FirstStep(input.token) /\ UNCHANGED exit_code
    /\ UNCHANGED <<i, order, registry, input, cmd, ctx_obj, db_calls, ctx_builds,
                   invoked, log>>

\* exact lookup of the token among the registered names
ResolveCommand ==
    /\ pc = "resolve"
    /\ IF input.token \in DOMAIN registry
       THEN /\ cmd' = input.token
            /\ pc' = StepAfter("resolve", input.token)
            /\ UNCHANGED exit_code
       ELSE Exit(2) /\ UNCHANGED cmd
    /\ UNCHANGED <<i, order, registry, input, params, ctx_obj, db_calls, ctx_builds,
                   invoked, log>>

\* lines 26-31: the body of cli
Callback ==
    /\ pc = "callback"
    /\ LET r == cli(params.repository, params.database_name,
                    params.database_engine, input.db_fails) IN
         /\ db_calls' = Append(db_calls, r.db_call)
         /\ IF r.raised
            THEN /\ Exit(1)
                 /\ UNCHANGED <<ctx_obj, ctx_builds, log>>
            ELSE /\ ctx_obj' = r.obj
                 /\ ctx_builds' = ctx_builds + 1
                 /\ log' = Append(log, [level |-> "debug", context |-> r.obj])
                 /\ pc' = StepAfter("callback", input.token)
                 /\ UNCHANGED exit_code
    /\ UNCHANGED <<i, order, registry, input, params, cmd, invoked>>

\* the resolved command parses its own options
MakeSubContext ==
    /\ pc = "make_context"
    /\ IF input.sub_args_ok
       THEN pc' = StepAfter("make_context", input.token) /\ UNCHANGED exit_code
       ELSE Exit(2)
    /\ UNCHANGED <<i, order, registry, input, params, cmd, ctx_obj, db_calls,
                   ctx_builds, invoked, log>>

\* the handler registered under the resolved name runs
InvokeHandler ==
    /\ pc = "handler"
    /\ invoked' = Append(invoked, [handler |-> registry[cmd], obj |-> ctx_obj])
    /\ ctx_obj' = handler_body(ctx_obj)
    /\ Exit(IF input.handler_ok THEN 0 ELSE 1)
    /\ UNCHANGED <<i, order, registry, input, params, cmd, db_calls, ctx_builds, log>>

Next ==
    \/ AddCommand
    \/ ImportDone
    \/ Main
    \/ ParseGlobalOptions
    \/ ResolveCommand
    \/ Callback
    \/ MakeSubContext
    \/ InvokeHandler

Spec == Init /\ [][Next]_vars

\* the same run, the commands being registered in any order
InitPerm ==
    /\ order \in Perms(RegistrationOrder)
    /\ pc = "import"
    /\ i = 1
    /\ registry = EmptyRegistry
    /\ input = None
    /\ params = None
    /\ cmd = NoToken
    /\ ctx_obj = None
    /\ db_calls = <<>>
    /\ ctx_builds = 0
    /\ invoked = <<>>
    /\ log = <<>>
    /\ exit_code = -1

SpecPerm == InitPerm /\ [][Next]_vars

\* ---------------------------------------------------------------- properties

Started == pc \notin {"import", "main"}

\* what the command line asks for, read off the input itself
EngineAccepted ==
    \/ input.engine_opt = NoOption
    \/ input.engine_opt \in {"--database-engine", "--database"}
       /\ input.engine_val \in {"sqlite", "memory"}
EngineRejected ==
    /\ input.engine_opt \in {"--database-engine", "--database"}
    /\ input.engine_val \notin {"sqlite", "memory"}
RequestedEngine ==
    IF input.engine_opt = NoOption THEN "sqlite" ELSE input.engine_val
ExpectedContext ==
    [ repository |-> input.repository,
      database |-> [dbtype |-> RequestedEngine, dbname |-> input.database_name,
                    assertions |-> TRUE],
      parser_class |-> "Parser" ]
ExpectedRegistry ==
    ("analyze" :> "analyze_handler") @@ ("explore" :> "explore_handler")
        @@ ("lint" :> "lint_handler")
NothingFailsBeforeHandler ==
    EngineAccepted /\ ~input.db_fails /\ input.sub_args_ok

C2_InvalidEngineRejected ==
    (Started /\ EngineRejected) =>
        /\ db_calls = <<>>
        /\ ctx_builds = 0
        /\ ctx_obj = None
        /\ invoked = <<>>
        /\ (pc = "done" => exit_code > 0)

C2_Witness ==
    /\ pc = "done"
    /\ input.engine_opt = "--database-engine"
    /\ input.engine_val = "postgres"
    /\ exit_code = 2

\* C3: when the global options are valid and the first positional token is not
\* a registered name, the body of cli never runs (no DB call, no Context) and
\* the run ends with a non-zero exit status.
C3_UnknownCommandRejected ==
    (Started /\ EngineAccepted /\ input.token # NoToken
        /\ input.token \notin DOMAIN ExpectedRegistry) =>
        /\ db_calls = <<>>
        /\ ctx_builds = 0
        /\ ctx_obj = None
        /\ invoked = <<>>
        /\ (pc = "done" => exit_code > 0)

C3_Witness ==
    /\ pc = "done"
    /\ EngineAccepted
    /\ input.token = "lin"
    /\ exit_code = 2
    /\ db_calls = <<>>

\* C4: dispatching a registered name runs exactly one handler, the one
\* registered under that name, and the Context it observes is the one built
\* from the global options of the invocation.
C4_ExactlyOneHandlerWithContext ==
    (Started /\ input.token \in DOMAIN ExpectedRegistry) =>
        /\ Len(invoked) <= 1
        /\ \A k \in 1..Len(invoked) :
              /\ invoked[k].handler = ExpectedRegistry[input.token]
              /\ invoked[k].obj = ExpectedContext
        /\ (pc = "done" /\ NothingFailsBeforeHandler => Len(invoked) = 1)

C4_Witness ==
    /\ pc = "done"
    /\ input.token = "explore"
    /\ input.engine_opt = "--database-engine"
    /\ input.engine_val = "memory"
    /\ input.database_name = "test"
    /\ input.repository = "/tmp/repo"
    /\ Len(invoked) = 1
    /\ invoked[1].obj = ExpectedContext
    /\ exit_code = 0

\* C5: for a valid engine identifier under either spelling, and for the
\* durable engine when the option is omitted, a DB(...) call that does not
\* fail is followed by a Context whose backend reports the requested kind.
C5_BackendReportsRequestedEngine ==
    (Started /\ EngineAccepted /\ db_calls # <<>>) =>
        /\ db_calls[1].dbtype = RequestedEngine
        /\ (~input.db_fails =>
              /\ ctx_obj # None
              /\ ctx_obj.database.dbtype = RequestedEngine)

C5_Witness ==
    /\ input # None
    /\ input.engine_opt = "--database"
    /\ input.engine_val = "memory"
    /\ ctx_obj # None
    /\ ctx_obj.database.dbtype = "memory"

\* C6: once ctx.obj is set, no later step of the run changes it.
C6_ContextNeverMutated ==
    [][ctx_obj # None => ctx_obj' = ctx_obj]_vars

C6_Witness ==
    /\ pc = "done"
    /\ Len(invoked) = 1
    /\ ctx_obj # None
    /\ ctx_obj = invoked[1].obj

\* C7: lint, registered by its own add_command call, is a registered name, and
\* the token lint runs the lint handler and no other.
C7_LintDispatchable ==
    (Started /\ input.token = "lint") =>
        /\ "lint" \in DOMAIN registry
        /\ registry["lint"] = "lint_handler"
        /\ \A k \in 1..Len(invoked) : invoked[k].handler = "lint_handler"
        /\ (pc = "done" /\ NothingFailsBeforeHandler =>
              /\ cmd = "lint"
              /\ Len(invoked) = 1)

C7_Witness ==
    /\ pc = "done"
    /\ input.token = "lint"
    /\ invoked = << [handler |-> "lint_handler", obj |-> ctx_obj] >>

\* C8: when the DB(...) call fails the run ends at once with a non-zero exit
\* status, ctx.obj stays unset and no handler runs; and no handler ever
\* observes a Context that lacks one of its three fields.
C8_BackendFailurePropagates ==
    /\ (Started /\ db_calls # <<>> /\ input.db_fails) =>
          /\ pc = "done"
          /\ exit_code > 0
          /\ ctx_obj = None
          /\ ctx_builds = 0
          /\ invoked = <<>>
    /\ \A k \in 1..Len(invoked) :
          DOMAIN invoked[k].obj = {"repository", "database", "parser_class"}

C8_Witness ==
    /\ pc = "done"
    /\ input.db_fails
    /\ Len(db_calls) = 1
    /\ exit_code = 1
    /\ ctx_obj = None

\* C9: whatever the order in which the commands and lint are registered, the
\* registered names are pairwise distinct, no registration replaces an
\* earlier one, and the resulting name-to-handler mapping is the same.
C9_RegistrationOrderIndependent ==
    /\ \A a, b \in 1..Len(order) : a # b => order[a].name # order[b].name
    /\ Cardinality(DOMAIN registry) = i - 1
    /\ (pc # "import" => registry = ExpectedRegistry)

C9_Witness ==
    /\ pc = "main"
    /\ order[1].name = "lint"
    /\ order[3].name = "analyze"
    /\ registry = ExpectedRegistry

\* C10: for every resolved command, lint and commands whose own options fail
\* to parse included, DB(..., assertions=True) has been called, and unless it
\* failed the Context built, before the command's options are parsed or its
\* handler runs.
C10_CallbackRunsForEveryCommand ==
    (cmd # NoToken /\ pc # "callback") =>
        /\ Len(db_calls) = 1
        /\ db_calls[1].assertions = TRUE
        /\ (~input.db_fails => ctx_builds = 1 /\ ctx_obj # None)

C10_Witness ==
    /\ pc = "done"
    /\ input.token = "lint"
    /\ ~input.sub_args_ok
    /\ exit_code = 2
    /\ Len(db_calls) = 1
    /\ ctx_builds = 1
    /\ invoked = <<>>

====
